---- MODULE Spec2Model ----
(***************************************************************************)
(* VoidLens uptime monitor: the ping scheduler with its per-target         *)
(* notification state machine (src/handlers/ping.ts) and the chunked       *)
(* system-status history (HistoryHandler / UptimeMonitor).                 *)
(*                                                                         *)
(* JavaScript runs one callback at a time; an async function gives up the  *)
(* event loop at each await.  Every action below is one such run-to-       *)
(* completion step: from one await (or the entry of the call) to the next. *)
(***************************************************************************)
EXTENDS Integers, Sequences, FiniteSets, TLC

\* ------------------------------------------------------------------ bounds
\* pingAllTargets calls that may be suspended at the same time
MaxTicks == 2
\* probes answered over a whole behaviour
MaxProbes == 3
\* process restarts over a whole behaviour
MaxRestarts == 1
\* collectSystemStatus calls that may be suspended at the same time
MaxCollects == 2
\* system-status samples collected over a whole behaviour
MaxSamples == 5
\* statuses stored before the reads begin
MaxStored == 4
\* getHistory calls, and steps of the clock between them
MaxQueries == 2
MaxClock == 3
\* frames the call stack holds before the engine throws a RangeError
MaxStack == 3
\* results of one target when its uptime is asked for
MaxResults == 4

\* target ids that can occur in storage/ping.json and in cache/ping-results
TargetIds == {"a", "b"}
\* the target lists loadConfig can read (the empty one is also the fallback)
Configs == {<<>>, <<"a">>, <<"a", "b">>}

\* --------------------------------------------------------- program constants
\* PingHandler.maxResultsPerTarget is 1000 in the source; the model keeps the
\* field and scales its value so that a trim is within reach of model checking.
maxResultsPerTarget == 2
\* PingHandler.slowResponseThreshold
slowResponseThreshold == 1000
\* HistoryHandler.maxEntriesPerFile is 700 in the source; scaled like
\* maxResultsPerTarget so that a rotation is within reach.
maxEntriesPerFile == 3

Ticks == 1..MaxTicks
Collects == 1..MaxCollects

\* what a probe can return: (isUp, responseTime, error), the error being the
\* message pingTarget's catch block stores.  1000 is the threshold itself,
\* 1500 is above it, 5000 is httpPing's default timeout.
ProbeOutcomes ==
  { [isUp |-> TRUE,  responseTime |-> 1000, error |-> ""],
    [isUp |-> TRUE,  responseTime |-> 1500, error |-> ""],
    [isUp |-> FALSE, responseTime |-> 5000, error |-> ""] }

\* outcome of the webhook POST
Deliveries == {"ok", "notOk", "throws"}

VARIABLES
  running,            \* the process has run PingHandler.initialize
  targets,            \* PingHandler.targets
  results,            \* PingHandler.results: target id -> PingResult[]
  lastNotifiedStatus, \* PingHandler.lastNotifiedStatus: target id -> boolean
  discordWebhookUrl,  \* TRUE iff DISCORD_WEBHOOK_URL is set
  intervalId,         \* PingHandler.intervalId: a timer is registered
  pingFiles,          \* cache/ping-results/<id>.json: target id -> PingResult[]
  tickPc,             \* where each pingAllTargets call is suspended
  tickIdx,            \* its position in the for loop over targets
  tickResult,         \* its local `result`
  tickWrite,          \* the JSON text handed to fs.writeFile
  tickType,           \* the notification type being sent
  tickPrev,           \* checkForNotifications' local previousStatus
  sent,               \* per target, the notifications whose POST has settled
  lastDelivery,       \* the target and outcome of the last settled webhook POST
  probes,             \* probes answered so far
  restarts,           \* restarts so far
  tornPing,           \* targets whose result file holds an incomplete text
  pingOverlapped,     \* two saveResults of one target have been suspended at once
  histReady,          \* the process has run HistoryHandler.initialize
  runFiles,           \* cache/run-<n>.json: run number -> SystemStatus[]
  currentRunNumber,   \* HistoryHandler.currentRunNumber
  entriesInCurrentFile, \* HistoryHandler.entriesInCurrentFile
  statusHistory,      \* HistoryHandler.statusHistory
  sysIntervalId,      \* UptimeMonitor.intervalId: a timer is registered
  collPc,             \* where each collectSystemStatus call is suspended
  collStatus,         \* its local `status`
  collRotate,         \* addStatus took the branch that starts a new file
  collFile,           \* the run number in the filename handed to fs.writeFile
  collText,           \* the JSON text handed to fs.writeFile
  appended,           \* every status handed to addStatus, in call order
  samples,            \* samples collected so far
  histRestarts,       \* restarts so far
  overlapped,         \* two addStatus calls have been suspended at once
  writeFailed,        \* a write of a run file has failed
  tornRuns,           \* run numbers whose file holds an incomplete text
  \* ---- calls of the read operations (HistoryHandler.getHistory)
  qNow,               \* Date.now()
  qCall,              \* the last getHistory call: arguments and result
  qPrev,              \* the getHistory call before it
  qCalls,             \* getHistory calls so far
  uCall,              \* the last calculateUptimePercentage call
  pCall,              \* the last pingTarget call: target, event and result
  gCall               \* the last getCurrentStatus call: its outcome

pingVars == <<running, targets, results, lastNotifiedStatus,
              discordWebhookUrl, intervalId, pingFiles, tickPc, tickIdx,
              tickResult, tickWrite, tickType, tickPrev, sent, lastDelivery,
              probes, restarts, tornPing, pingOverlapped>>

histVars == <<histReady, runFiles, currentRunNumber, entriesInCurrentFile,
              statusHistory, sysIntervalId, collPc, collStatus, collRotate,
              collFile, collText, appended, samples, histRestarts, overlapped,
              writeFailed, tornRuns>>

readVars == <<qNow, qCall, qPrev, qCalls, uCall, pCall, gCall>>

vars == <<pingVars, histVars, readVars>>

\* ----------------------------------------------------------------- helpers
\* obj[key] = value on a JavaScript object used as a map
Put(f, k, v) == [x \in (DOMAIN f) \cup {k} |-> IF x = k THEN v ELSE f[x]]

\* a map with no keys ({} in the source)
EmptyMap == [x \in {} |-> 0]

Last(s) == s[Len(s)]

\* JavaScript's null
Null == [null |-> TRUE]

\* Array.prototype.slice(-n) for n >= 1
SliceLast(s, n) ==
  IF Len(s) <= n THEN s ELSE SubSeq(s, Len(s) - n + 1, Len(s))

NoResult == [isUp |-> FALSE, responseTime |-> 0, error |-> ""]

\* fs.writeFile(path, text) replaces the file in place: it truncates, then
\* writes.  What the file holds afterwards: "whole" is the new text, "kept" the
\* previous contents (the call failed before truncating, or never started),
\* "torn" an empty or incomplete text that JSON.parse rejects.
\* A write that settles without error leaves the whole text unless another
\* write to the same path is racing it; a write that fails leaves the file
\* kept or torn.
WriteEffects(ok, racing) ==
  IF ok THEN (IF racing THEN {"whole", "torn"} ELSE {"whole"})
        ELSE {"kept", "torn"}

\* a process that ends while the write is in flight leaves any of the three
CrashEffects == {"kept", "whole", "torn"}

\* the files (a map from name to contents) after a write with effect e
FilesAfter(files, name, text, e) ==
  CASE e = "whole" -> Put(files, name, text)
    [] e = "torn"  -> Put(files, name, <<>>)
    [] OTHER       -> files

\* the names of the torn files after a write with effect e
TornAfter(torn, name, e) ==
  CASE e = "whole" -> torn \ {name}
    [] e = "torn"  -> torn \cup {name}
    [] OTHER       -> torn

\* the files and the torn names after a crash: the writes in flight (slots
\* `inflight`, to `file[c]` with `text[c]`) take effect `eff[c]`, c = n, n-1, ..
RECURSIVE CrashFiles(_, _, _, _, _, _)
CrashFiles(files, n, inflight, file, text, eff) ==
  IF n = 0 THEN files
  ELSE LET before == CrashFiles(files, n - 1, inflight, file, text, eff)
       IN  IF n \in inflight
             THEN FilesAfter(before, file[n], text[n], eff[n])
             ELSE before

RECURSIVE CrashTorn(_, _, _, _, _)
CrashTorn(torn, n, inflight, file, eff) ==
  IF n = 0 THEN torn
  ELSE LET before == CrashTorn(torn, n - 1, inflight, file, eff)
       IN  IF n \in inflight THEN TornAfter(before, file[n], eff[n]) ELSE before

\* ------------------------------------------------------------ PingHandler
\* this.results[targetId] || []
getResultsForTarget(targetId) ==
  IF targetId \in DOMAIN results THEN results[targetId] ELSE <<>>

\* addResult: push, then trim to the last maxResultsPerTarget
addResult(res, targetId, result) ==
  LET old    == IF targetId \in DOMAIN res THEN res[targetId] ELSE <<>>
      pushed == Append(old, result)
  IN  Put(res, targetId,
          IF Len(pushed) > maxResultsPerTarget
            THEN SliceLast(pushed, maxResultsPerTarget)
            ELSE pushed)

\* getLatestResultForTarget on a results map; Null when there is none
getLatestResultForTarget(res, targetId) ==
  IF targetId \notin DOMAIN res \/ Len(res[targetId]) = 0
    THEN Null
    ELSE res[targetId][Len(res[targetId])]

\* NotificationType with the slow test written >= instead of >
NotificationTypeSlowAtThreshold(prev, result) ==
  IF prev = "undefined"
    THEN (IF result.isUp THEN "initial-up" ELSE "initial-down")
  ELSE IF prev = "true" /\ ~result.isUp THEN "down"
  ELSE IF prev = "false" /\ result.isUp THEN "up"
  ELSE IF result.isUp /\ result.responseTime >= slowResponseThreshold THEN "slow"
  ELSE "none"

\* the if / else-if chain of checkForNotifications: the type it dispatches for
\* previousStatus `prev` ("undefined" on the first check) and `result`
NotificationType(prev, result) ==
  IF prev = "undefined"
    THEN (IF result.isUp THEN "initial-up" ELSE "initial-down")
  ELSE IF prev = "true" /\ ~result.isUp THEN "down"
  ELSE IF prev = "false" /\ result.isUp THEN "up"
  ELSE IF result.isUp /\ result.responseTime > slowResponseThreshold THEN "slow"
  ELSE "none"

\* StatusAfter with one notification state shared by all known targets
StatusAfterShared(type, result, status, targetId) ==
  LET all == (DOMAIN status) \cup {targetId}
  IN  CASE type \in {"initial-up", "initial-down"} -> [x \in all |-> result.isUp]
        [] type = "down" -> [x \in all |-> FALSE]
        [] type = "up"   -> [x \in all |-> TRUE]
        [] OTHER         -> status

\* StatusAfter with a slow branch that remembers the slow response as a state
StatusAfterSlowRemembered(type, result, status, targetId) ==
  CASE type \in {"initial-up", "initial-down"} -> Put(status, targetId, result.isUp)
    [] type = "down" -> Put(status, targetId, FALSE)
    [] type = "up"   -> Put(status, targetId, TRUE)
    [] OTHER         -> Put(status, targetId, FALSE)

\* the assignment that follows the awaited dispatch in each branch
StatusAfter(type, result, status, targetId) ==
  CASE type \in {"initial-up", "initial-down"} -> Put(status, targetId, result.isUp)
    [] type = "down" -> Put(status, targetId, FALSE)
    [] type = "up"   -> Put(status, targetId, TRUE)
    [] OTHER         -> status

\* this.lastNotifiedStatus[id] as checkForNotifications reads it
StatusOf(status, targetId) ==
  IF targetId \notin DOMAIN status THEN "undefined"
  ELSE IF status[targetId] THEN "true" ELSE "false"

\* SendRaises without the try/catch around fetch
SendRaisesWhenFetchThrows(delivery) == delivery = "throws"

\* sendDiscordNotification wraps the POST in try/catch and only logs a
\* response that is not ok: it never rejects
SendRaises(delivery) == FALSE

\* loadStoredResults: the files are read in directory order inside one try
\* block, so a failing read leaves the files after it unloaded.  `n` files
\* are read before the failure (all of them when nothing fails).
FileOrder == <<"a", "b">>

StoredFiles == SelectSeq(FileOrder, LAMBDA t : t \in DOMAIN pingFiles)

LoadedResults(n) ==
  [t \in {StoredFiles[i] : i \in 1..n} |-> pingFiles[t]]

LoadedStatus(n) ==
  LET res == LoadedResults(n)
  IN  [t \in {x \in DOMAIN res : Len(res[x]) > 0} |-> Last(res[t]).isUp]

cur(k) == targets[tickIdx[k]]

IdleTicks == {k \in Ticks : tickPc[k] = "idle"}

\* the slot a new pingAllTargets call takes
FreeTick == CHOOSE k \in IdleTicks : \A j \in IdleTicks : k <= j

\* pingAllTargets up to its first await
BeginTick(k) ==
  IF Len(targets) = 0
    THEN UNCHANGED <<tickPc, tickIdx>>
    ELSE /\ tickPc' = [tickPc EXCEPT ![k] = "ping"]
         /\ tickIdx' = [tickIdx EXCEPT ![k] = 1]

\* the end of one loop iteration of pingAllTargets
NextTarget(k) ==
  IF tickIdx[k] < Len(targets)
    THEN /\ tickPc' = [tickPc EXCEPT ![k] = "ping"]
         /\ tickIdx' = [tickIdx EXCEPT ![k] = tickIdx[k] + 1]
    ELSE /\ tickPc' = [tickPc EXCEPT ![k] = "idle"]
         /\ tickIdx' = [tickIdx EXCEPT ![k] = 0]

PingInit ==
  /\ running = FALSE
  /\ targets = <<>>
  /\ results = EmptyMap
  /\ lastNotifiedStatus = EmptyMap
  /\ discordWebhookUrl \in BOOLEAN
  /\ intervalId = FALSE
  /\ pingFiles = EmptyMap
  /\ tickPc = [k \in Ticks |-> "idle"]
  /\ tickIdx = [k \in Ticks |-> 0]
  /\ tickResult = [k \in Ticks |-> NoResult]
  /\ tickWrite = [k \in Ticks |-> <<>>]
  /\ tickType = [k \in Ticks |-> "none"]
  /\ tickPrev = [k \in Ticks |-> "undefined"]
  /\ sent = [t \in TargetIds |-> <<>>]
  /\ lastDelivery = [target |-> "none", ok |-> TRUE]
  /\ probes = 0
  /\ restarts = 0
  /\ tornPing = {}
  /\ pingOverlapped = FALSE

\* PingHandler.initialize: loadConfig, then loadStoredResults
PingInitialize ==
  /\ ~running
  /\ running' = TRUE
  /\ \E cfg \in Configs : targets' = cfg
  /\ \E n \in 0..Len(StoredFiles) :
       /\ \A i \in 1..n : StoredFiles[i] \notin tornPing
       /\ results' = LoadedResults(n)
       /\ lastNotifiedStatus' = LoadedStatus(n)
  /\ UNCHANGED <<discordWebhookUrl, intervalId, pingFiles, tickPc, tickIdx,
                 tickResult, tickWrite, tickType, tickPrev, sent, lastDelivery,
                 probes, restarts, tornPing,
                 pingOverlapped>>
  /\ UNCHANGED <<histVars, readVars>>

\* PingHandler.startMonitoring
PingStartMonitoring ==
  /\ running
  /\ IdleTicks # {}
  /\ BeginTick(FreeTick)
  /\ intervalId' = TRUE
  /\ UNCHANGED <<running, targets, results, lastNotifiedStatus,
                 discordWebhookUrl, pingFiles, tickResult, tickWrite, tickType,
                 tickPrev, sent, lastDelivery, probes, restarts, tornPing,
                 pingOverlapped>>
  /\ UNCHANGED <<histVars, readVars>>

\* PingHandler.stopMonitoring
PingStopMonitoring ==
  /\ running
  /\ intervalId
  /\ intervalId' = FALSE
  /\ UNCHANGED <<running, targets, results, lastNotifiedStatus,
                 discordWebhookUrl, pingFiles, tickPc, tickIdx, tickResult,
                 tickWrite, tickType, tickPrev, sent, lastDelivery, probes, restarts, tornPing,
                 pingOverlapped>>
  /\ UNCHANGED <<histVars, readVars>>

\* the setInterval callback of startMonitoring
PingTimerFires ==
  /\ intervalId
  /\ IdleTicks # {}
  /\ BeginTick(FreeTick)
  /\ UNCHANGED <<running, targets, results, lastNotifiedStatus,
                 discordWebhookUrl, intervalId, pingFiles, tickResult, tickWrite,
                 tickType, tickPrev, sent, lastDelivery, probes, restarts, tornPing,
                 pingOverlapped>>
  /\ UNCHANGED <<histVars, readVars>>

\* pingTarget returns: addResult, then saveResults up to its fs.writeFile
ProbeReturns(k, outcome) ==
  /\ tickPc[k] = "ping"
  /\ probes < MaxProbes
  /\ probes' = probes + 1
  /\ LET result == [isUp |-> outcome.isUp,
                    responseTime |-> outcome.responseTime,
                    error |-> outcome.error]
         res    == addResult(results, cur(k), result)
     IN  /\ tickResult' = [tickResult EXCEPT ![k] = result]
         /\ results' = res
         /\ tickWrite' = [tickWrite EXCEPT ![k] = res[cur(k)]]
  /\ tickPc' = [tickPc EXCEPT ![k] = "save"]
  /\ pingOverlapped' =
       (pingOverlapped \/ \E j \in Ticks \ {k} :
                            tickPc[j] = "save" /\ cur(j) = cur(k))
  /\ UNCHANGED <<running, targets, lastNotifiedStatus, discordWebhookUrl,
                 intervalId, pingFiles, tickIdx, tickType, tickPrev, sent,
                 lastDelivery, restarts, tornPing>>
  /\ UNCHANGED <<histVars, readVars>>

\* CheckForNotifications with a dispatch that is not awaited: the loop of
\* pingAllTargets moves on to the next target while the POST is in flight
CheckForNotificationsDetached(k) ==
  LET prev == StatusOf(lastNotifiedStatus, cur(k))
      type == NotificationType(prev, tickResult[k])
  IN  IF ~discordWebhookUrl \/ type = "none"
        THEN /\ NextTarget(k)
             /\ tickResult' = [tickResult EXCEPT ![k] = NoResult]
             /\ UNCHANGED <<tickType, tickPrev>>
        ELSE /\ tickPc' = [tickPc EXCEPT ![k] = "send"]
             /\ tickType' = [tickType EXCEPT ![k] = type]
             /\ tickPrev' = [tickPrev EXCEPT ![k] = prev]
             /\ tickIdx' = [tickIdx EXCEPT ![k] =
                              IF @ < Len(targets) THEN @ + 1 ELSE @]
             /\ UNCHANGED tickResult

\* checkForNotifications from its entry to the fetch of
\* sendDiscordNotification, or to its return when there is nothing to send
CheckForNotifications(k) ==
  LET prev == StatusOf(lastNotifiedStatus, cur(k))
      type == NotificationType(prev, tickResult[k])
  IN  IF ~discordWebhookUrl \/ type = "none"
        THEN /\ NextTarget(k)
             /\ tickResult' = [tickResult EXCEPT ![k] = NoResult]
             /\ UNCHANGED <<tickType, tickPrev>>
        ELSE /\ tickPc' = [tickPc EXCEPT ![k] = "send"]
             /\ tickType' = [tickType EXCEPT ![k] = type]
             /\ tickPrev' = [tickPrev EXCEPT ![k] = prev]
             /\ UNCHANGED <<tickIdx, tickResult>>

\* fs.writeFile of saveResults settles (a failure is caught and logged) and
\* pingAllTargets goes on into checkForNotifications
SaveSettles(k, ok) ==
  /\ tickPc[k] = "save"
  /\ \E e \in WriteEffects(ok, \E j \in Ticks \ {k} :
                                  tickPc[j] = "save" /\ cur(j) = cur(k)) :
       /\ pingFiles' = FilesAfter(pingFiles, cur(k), tickWrite[k], e)
       /\ tornPing' = TornAfter(tornPing, cur(k), e)
  /\ tickWrite' = [tickWrite EXCEPT ![k] = <<>>]
  /\ CheckForNotifications(k)
  /\ UNCHANGED <<running, targets, results, lastNotifiedStatus,
                 discordWebhookUrl, intervalId, sent, lastDelivery, probes,
                 restarts, pingOverlapped>>
  /\ UNCHANGED <<histVars, readVars>>

\* the webhook POST settles and checkForNotifications runs to its end
SendSettles(k, delivery) ==
  /\ tickPc[k] = "send"
  /\ lastDelivery' = [target |-> cur(k), ok |-> delivery = "ok"]
  /\ sent' = [sent EXCEPT ![cur(k)] = Append(@, tickType[k])]
  /\ IF SendRaises(delivery)
       THEN \* the rejection leaves checkForNotifications and pingAllTargets
            /\ tickPc' = [tickPc EXCEPT ![k] = "idle"]
            /\ tickIdx' = [tickIdx EXCEPT ![k] = 0]
            /\ UNCHANGED lastNotifiedStatus
       ELSE /\ lastNotifiedStatus' =
                 StatusAfter(tickType[k], tickResult[k], lastNotifiedStatus, cur(k))
            /\ NextTarget(k)
  /\ tickType' = [tickType EXCEPT ![k] = "none"]
  /\ tickPrev' = [tickPrev EXCEPT ![k] = "undefined"]
  /\ tickResult' = [tickResult EXCEPT ![k] = NoResult]
  /\ UNCHANGED <<running, targets, results, discordWebhookUrl, intervalId,
                 pingFiles, tickWrite, probes, restarts, tornPing,
                 pingOverlapped>>
  /\ UNCHANGED <<histVars, readVars>>

\* the process ends and a new one is constructed: memory is lost, files stay
PingRestart ==
  /\ running
  /\ restarts < MaxRestarts
  /\ restarts' = restarts + 1
  /\ running' = FALSE
  /\ targets' = <<>>
  /\ results' = EmptyMap
  /\ lastNotifiedStatus' = EmptyMap
  /\ discordWebhookUrl' \in BOOLEAN
  /\ intervalId' = FALSE
  /\ tickPc' = [k \in Ticks |-> "idle"]
  /\ tickIdx' = [k \in Ticks |-> 0]
  /\ tickResult' = [k \in Ticks |-> NoResult]
  /\ tickWrite' = [k \in Ticks |-> <<>>]
  /\ tickType' = [k \in Ticks |-> "none"]
  /\ tickPrev' = [k \in Ticks |-> "undefined"]
  /\ LET inflight == {k \in Ticks : tickPc[k] = "save"}
         file     == [k \in Ticks |-> IF k \in inflight THEN cur(k) ELSE "none"]
     IN  \E eff \in [Ticks -> CrashEffects] :
           /\ \A k \in Ticks \ inflight : eff[k] = "kept"
           /\ pingFiles' = CrashFiles(pingFiles, MaxTicks, inflight, file,
                                      tickWrite, eff)
           /\ tornPing' = CrashTorn(tornPing, MaxTicks, inflight, file, eff)
  /\ UNCHANGED <<sent, lastDelivery, probes, pingOverlapped>>
  /\ UNCHANGED <<histVars, readVars>>

\* --------------------------------------------- HistoryHandler, UptimeMonitor
\* a SystemStatus; `sample` stands for the metrics read, one value per sample,
\* and timestamp is Date.now() when the status was built
NoStatus == [sample |-> 0, timestamp |-> 0]

\* Math.max(...runFiles) over the run files found
MaxRun(files) == CHOOSE n \in DOMAIN files : \A m \in DOMAIN files : m <= n

\* getLatestStatus on a statusHistory; Null when it is empty
getLatestStatus(history) ==
  IF Len(history) = 0 THEN Null ELSE history[Len(history)]

\* findLatestRunNumber after a successful read of the latest file: the values
\* of <<currentRunNumber, entriesInCurrentFile, statusHistory>>
LatestRun(files) ==
  LET latest  == MaxRun(files)
      entries == files[latest]
  IN  IF Len(entries) >= maxEntriesPerFile
        THEN <<latest + 1, 0, entries>>
        ELSE <<latest, Len(entries), entries>>

\* the run numbers of the files, ascending (the sort of loadAllHistory)
RECURSIVE SortedRuns(_)
SortedRuns(runs) ==
  IF runs = {} THEN <<>>
  ELSE LET lo == CHOOSE n \in runs : \A m \in runs : n <= m
       IN  <<lo>> \o SortedRuns(runs \ {lo})

\* loadAllHistory: the files' entries concatenated in ascending run number
RECURSIVE ConcatRuns(_, _)
ConcatRuns(files, order) ==
  IF order = <<>> THEN <<>>
  ELSE files[Head(order)] \o ConcatRuns(files, Tail(order))

loadAllHistory(files) == ConcatRuns(files, SortedRuns(DOMAIN files))

IdleCollects == {c \in Collects : collPc[c] = "idle"}

FreeCollect == CHOOSE c \in IdleCollects : \A j \in IdleCollects : c <= j

\* collectSystemStatus up to its await of updateNetworkStats
BeginCollect(c) == collPc' = [collPc EXCEPT ![c] = "stats"]

HistInit ==
  /\ histReady = FALSE
  /\ runFiles = EmptyMap
  /\ currentRunNumber = 1
  /\ entriesInCurrentFile = 0
  /\ statusHistory = <<>>
  /\ sysIntervalId = FALSE
  /\ collPc = [c \in Collects |-> "idle"]
  /\ collStatus = [c \in Collects |-> NoStatus]
  /\ collRotate = [c \in Collects |-> FALSE]
  /\ collFile = [c \in Collects |-> 0]
  /\ collText = [c \in Collects |-> <<>>]
  /\ appended = <<>>
  /\ samples = 0
  /\ histRestarts = 0
  /\ overlapped = FALSE
  /\ writeFailed = FALSE
  /\ tornRuns = {}

\* HistoryHandler.initialize: findLatestRunNumber.  `fails` is readdir,
\* readFile or JSON.parse throwing, which the catch block turns into run 1.
HistInitialize(fails) ==
  /\ ~histReady
  /\ histReady' = TRUE
  /\ (DOMAIN runFiles # {} /\ MaxRun(runFiles) \in tornRuns) => fails
  /\ IF DOMAIN runFiles = {}
       THEN /\ ~fails
            /\ UNCHANGED <<currentRunNumber, entriesInCurrentFile,
                           statusHistory>>
       ELSE IF fails
         THEN /\ currentRunNumber' = 1
              /\ entriesInCurrentFile' = 0
              /\ UNCHANGED statusHistory
         ELSE /\ currentRunNumber' = LatestRun(runFiles)[1]
              /\ entriesInCurrentFile' = LatestRun(runFiles)[2]
              /\ statusHistory' = LatestRun(runFiles)[3]
  /\ UNCHANGED <<runFiles, sysIntervalId, collPc, collStatus, collRotate,
                 collFile, collText, appended, samples, histRestarts,
                 overlapped, writeFailed, tornRuns>>
  /\ UNCHANGED <<pingVars, readVars>>

\* UptimeMonitor.startMonitoring
SysStartMonitoring ==
  /\ histReady
  /\ IdleCollects # {}
  /\ BeginCollect(FreeCollect)
  /\ sysIntervalId' = TRUE
  /\ UNCHANGED <<histReady, runFiles, currentRunNumber, entriesInCurrentFile,
                 statusHistory, collStatus, collRotate, collFile, collText,
                 appended, samples, histRestarts, overlapped, writeFailed,
                 tornRuns>>
  /\ UNCHANGED <<pingVars, readVars>>

\* UptimeMonitor.stopMonitoring: its own timer is cleared, then
\* pingHandler.stopMonitoring clears the ping timer
SysStopMonitoring ==
  /\ histReady
  /\ sysIntervalId
  /\ sysIntervalId' = FALSE
  /\ intervalId' = FALSE
  /\ UNCHANGED <<histReady, runFiles, currentRunNumber, entriesInCurrentFile,
                 statusHistory, collPc, collStatus, collRotate, collFile,
                 collText, appended, samples, histRestarts, overlapped,
                 writeFailed, tornRuns>>
  /\ UNCHANGED <<running, targets, results, lastNotifiedStatus,
                 discordWebhookUrl, pingFiles, tickPc, tickIdx, tickResult,
                 tickWrite, tickType, tickPrev, sent, lastDelivery, probes,
                 restarts, tornPing, pingOverlapped>>
  /\ UNCHANGED readVars

\* the setInterval callback of UptimeMonitor.startMonitoring
SysTimerFires ==
  /\ sysIntervalId
  /\ IdleCollects # {}
  /\ BeginCollect(FreeCollect)
  /\ UNCHANGED <<histReady, runFiles, currentRunNumber, entriesInCurrentFile,
                 statusHistory, sysIntervalId, collStatus, collRotate, collFile,
                 collText, appended, samples, histRestarts, overlapped,
                 writeFailed, tornRuns>>
  /\ UNCHANGED <<pingVars, readVars>>

\* updateNetworkStats returns: the status is built and addStatus runs up to
\* the fs.writeFile of saveCache
StatsReturn(c) ==
  /\ collPc[c] = "stats"
  /\ samples < MaxSamples
  /\ samples' = samples + 1
  /\ LET status == [sample |-> samples + 1, timestamp |-> qNow]
         pushed == Append(statusHistory, status)
     IN  /\ collStatus' = [collStatus EXCEPT ![c] = status]
         /\ statusHistory' = pushed
         /\ entriesInCurrentFile' = entriesInCurrentFile + 1
         /\ collRotate' = [collRotate EXCEPT ![c] =
                             entriesInCurrentFile + 1 >= maxEntriesPerFile]
         /\ collFile' = [collFile EXCEPT ![c] = currentRunNumber]
         /\ collText' = [collText EXCEPT ![c] = pushed]
         /\ appended' = Append(appended, status)
  /\ collPc' = [collPc EXCEPT ![c] = "write"]
  /\ overlapped' = (overlapped \/ \E d \in Collects : d # c /\ collPc[d] = "write")
  /\ UNCHANGED <<histReady, runFiles, currentRunNumber, sysIntervalId,
                 histRestarts, writeFailed, tornRuns>>
  /\ UNCHANGED <<pingVars, readVars>>

\* what addStatus does after its await of saveCache: the values of
\* <<statusHistory, entriesInCurrentFile, currentRunNumber>>
AfterSave(rotate, status) ==
  IF rotate
    THEN <<(<<status>>), 1, currentRunNumber + 1>>
    ELSE <<statusHistory, entriesInCurrentFile, currentRunNumber>>

\* fs.writeFile of saveCache settles (a failure is caught and logged) and
\* addStatus runs to its end
CacheWriteSettles(c, ok) ==
  /\ collPc[c] = "write"
  /\ \E e \in WriteEffects(ok, \E d \in Collects \ {c} :
                                  collPc[d] = "write" /\ collFile[d] = collFile[c]) :
       /\ runFiles' = FilesAfter(runFiles, collFile[c], collText[c], e)
       /\ tornRuns' = TornAfter(tornRuns, collFile[c], e)
  /\ writeFailed' = (writeFailed \/ ~ok)
  /\ statusHistory' = AfterSave(collRotate[c], collStatus[c])[1]
  /\ entriesInCurrentFile' = AfterSave(collRotate[c], collStatus[c])[2]
  /\ currentRunNumber' = AfterSave(collRotate[c], collStatus[c])[3]
  /\ collPc' = [collPc EXCEPT ![c] = "idle"]
  /\ collStatus' = [collStatus EXCEPT ![c] = NoStatus]
  /\ collRotate' = [collRotate EXCEPT ![c] = FALSE]
  /\ collFile' = [collFile EXCEPT ![c] = 0]
  /\ collText' = [collText EXCEPT ![c] = <<>>]
  /\ UNCHANGED <<histReady, sysIntervalId, appended, samples, histRestarts,
                 overlapped>>
  /\ UNCHANGED <<pingVars, readVars>>

\* the process ends and a new one is constructed: memory is lost, files stay
HistRestart ==
  /\ histReady
  /\ histRestarts < MaxRestarts
  /\ histRestarts' = histRestarts + 1
  /\ histReady' = FALSE
  /\ currentRunNumber' = 1
  /\ entriesInCurrentFile' = 0
  /\ statusHistory' = <<>>
  /\ sysIntervalId' = FALSE
  /\ collPc' = [c \in Collects |-> "idle"]
  /\ collStatus' = [c \in Collects |-> NoStatus]
  /\ collRotate' = [c \in Collects |-> FALSE]
  /\ collFile' = [c \in Collects |-> 0]
  /\ collText' = [c \in Collects |-> <<>>]
  /\ LET inflight == {c \in Collects : collPc[c] = "write"}
     IN  \E eff \in [Collects -> CrashEffects] :
           /\ \A c \in Collects \ inflight : eff[c] = "kept"
           /\ runFiles' = CrashFiles(runFiles, MaxCollects, inflight,
                                     collFile, collText, eff)
           /\ tornRuns' = CrashTorn(tornRuns, MaxCollects, inflight,
                                    collFile, eff)
  /\ UNCHANGED <<appended, samples, overlapped, writeFailed>>
  /\ UNCHANGED <<pingVars, readVars>>

HistNext ==
  \/ \E fails \in BOOLEAN : HistInitialize(fails)
  \/ SysStartMonitoring
  \/ SysStopMonitoring
  \/ SysTimerFires
  \/ \E c \in Collects : StatsReturn(c)
  \/ \E c \in Collects, ok \in BOOLEAN : CacheWriteSettles(c, ok)
  \/ HistRestart

PingNext ==
  \/ PingInitialize
  \/ PingStartMonitoring
  \/ PingStopMonitoring
  \/ PingTimerFires
  \/ \E k \in Ticks, o \in ProbeOutcomes : ProbeReturns(k, o)
  \/ \E k \in Ticks, ok \in BOOLEAN : SaveSettles(k, ok)
  \/ \E k \in Ticks, d \in Deliveries : SendSettles(k, d)
  \/ PingRestart

\* ------------------------------------------------- PingHandler, one probe
\* target.method: 'icmp' goes to icmpPing, anything else to httpPing
Methods == {"icmp", "GET"}

\* what the network and the operating system make of one probe.
\* httpPing: a response that ended (status code, elapsed ms); an 'error' event
\* of the request (connection refused, reset, DNS failure); a 'timeout' event;
\* new URL(target.url) throwing on a malformed URL.
\* icmpPing: a ping that exited with 0 and a ttl in its output; a ping that
\* exited with an error, which rejects execAsync.
HttpEvents ==
  { [kind |-> "response", statusCode |-> 200, ms |-> 1000],
    [kind |-> "response", statusCode |-> 404, ms |-> 1000],
    [kind |-> "error", statusCode |-> 0, ms |-> 1000],
    [kind |-> "timeout", statusCode |-> 0, ms |-> 5000],
    [kind |-> "badUrl", statusCode |-> 0, ms |-> 0] }

IcmpEvents ==
  { [kind |-> "reply", statusCode |-> 0, ms |-> 1000],
    [kind |-> "execFails", statusCode |-> 0, ms |-> 1000] }

EventsOf(method) == IF method = "icmp" THEN IcmpEvents ELSE HttpEvents

\* the events the contract calls failures
FailureEvents ==
  {e \in HttpEvents \cup IcmpEvents :
     \/ e.kind \in {"error", "timeout", "badUrl", "execFails"}
     \/ e.kind = "response" /\ e.statusCode >= 400}

\* a promise settled: fulfilled with a value, or rejected with an error message
Fulfilled(value) == [rejected |-> FALSE, value |-> value, message |-> ""]
Rejected(message) == [rejected |-> TRUE, value |-> Null, message |-> message]

\* icmpPing: its own catch block turns every failure into a result
icmpPing(event) ==
  IF event.kind = "execFails"
    THEN Fulfilled([isUp |-> FALSE, responseTime |-> 0])
    ELSE Fulfilled([isUp |-> event.kind = "reply", responseTime |-> event.ms])

\* httpPing: resolves on 'end', 'error' and 'timeout'; an exception thrown in
\* the promise executor (new URL) rejects the promise
httpPing(event) ==
  CASE event.kind = "response" ->
         Fulfilled([isUp |-> event.statusCode < 400, responseTime |-> event.ms])
    [] event.kind = "error" ->
         Fulfilled([isUp |-> FALSE, responseTime |-> event.ms])
    [] event.kind = "timeout" ->
         Fulfilled([isUp |-> FALSE, responseTime |-> 5000])
    [] OTHER -> Rejected("Invalid URL")

\* pingTarget with its try block not catching
pingTargetNoCatch(method, event) ==
  LET inner == IF method = "icmp" THEN icmpPing(event) ELSE httpPing(event)
  IN  IF inner.rejected
        THEN Rejected(inner.message)
        ELSE Fulfilled([isUp |-> inner.value.isUp,
                        responseTime |-> inner.value.responseTime,
                        error |-> ""])

\* pingTarget: isUp, responseTime and error start as false, 0 and ''; the try
\* block copies the inner result, the catch block stores the message
pingTarget(method, event) ==
  LET inner == IF method = "icmp" THEN icmpPing(event) ELSE httpPing(event)
  IN  IF inner.rejected
        THEN Fulfilled([isUp |-> FALSE, responseTime |-> 0,
                        error |-> inner.message])
        ELSE Fulfilled([isUp |-> inner.value.isUp,
                        responseTime |-> inner.value.responseTime,
                        error |-> ""])

\* pingAllTargets at `await this.pingTarget(target)`: with a value it goes on
\* to addResult and saveResults; a rejection would end the call there
PingTargetSettles(k, method, event) ==
  /\ tickPc[k] = "ping"
  /\ LET settled == pingTarget(method, event)
     IN  IF settled.rejected
           THEN /\ tickPc' = [tickPc EXCEPT ![k] = "idle"]
                /\ tickIdx' = [tickIdx EXCEPT ![k] = 0]
                /\ UNCHANGED <<running, targets, results, lastNotifiedStatus,
                               discordWebhookUrl, intervalId, pingFiles,
                               tickResult, tickWrite, tickType, tickPrev, sent,
                               lastDelivery, probes, restarts, tornPing,
                               pingOverlapped>>
                /\ UNCHANGED <<histVars, readVars>>
           ELSE ProbeReturns(k, settled.value)

\* startMonitoring called when no round of probes is in flight
StartRound ==
  /\ IdleTicks = Ticks
  /\ PingStartMonitoring

\* rounds of probes one after the other, each ending before the timer fires
ProbeNext ==
  \/ PingInitialize
  \/ StartRound
  \/ \E k \in Ticks, method \in Methods :
       \E event \in EventsOf(method) : PingTargetSettles(k, method, event)
  \/ \E k \in Ticks, ok \in BOOLEAN : SaveSettles(k, ok)
  \/ \E k \in Ticks, d \in Deliveries : SendSettles(k, d)

\* the setInterval callback firing when the previous round has ended
NextRound ==
  /\ IdleTicks = Ticks
  /\ PingTimerFires

\* PingHandler with rounds that never overlap (every pingAllTargets call ends
\* within pingInterval), across restarts of the process
SerialNext ==
  \/ PingInitialize
  \/ StartRound
  \/ NextRound
  \/ \E k \in Ticks, o \in ProbeOutcomes : ProbeReturns(k, o)
  \/ \E k \in Ticks, ok \in BOOLEAN : SaveSettles(k, ok)
  \/ \E k \in Ticks, d \in Deliveries : SendSettles(k, d)
  \/ PingRestart

\* ------------------------------------------ PingHandler, one target probed
\* target.expectedStatus, an optional field: the empty set when absent, else
\* the set of the one status code the target's configuration expects
ExpectedStatuses == {{}, {200}, {301}, {404}}

\* the targets a configuration can hold, by the fields a probe can read
ProbeTargets == [method : Methods, expectedStatus : ExpectedStatuses]

\* status codes of a response that ended
StatusCodes == {200, 301, 399, 400, 404, 500}

\* the events of HttpEvents, with every status code and both response times
HttpProbeEvents ==
  HttpEvents \cup
    {[kind |-> "response", statusCode |-> s, ms |-> ms] :
       s \in StatusCodes, ms \in {1000, 1500}}

\* pingTarget(target) called on its own: the target's method selects the
\* probe; no other field of the target reaches the result
PingTarget(target, event) ==
  /\ pCall' = [target |-> target, event |-> event,
               result |-> pingTarget(target.method, event).value]
  /\ UNCHANGED <<qNow, qCall, qPrev, qCalls, uCall, gCall>>
  /\ UNCHANGED <<pingVars, histVars>>

TargetNext ==
  \E target \in ProbeTargets :
    \E event \in (IF target.method = "icmp" THEN IcmpEvents
                                            ELSE HttpProbeEvents) :
      PingTarget(target, event)

\* ------------------------------------------ UptimeMonitor.getCurrentStatus
\* getCurrentStatus entered with `depth` frames of itself on the stack.  With
\* no latest status it calls collectSystemStatus, which runs to its first
\* await and so leaves statusHistory as it was, and then calls itself; the
\* engine ends the recursion with a RangeError when the stack is full.
RECURSIVE getCurrentStatus(_, _)
getCurrentStatus(history, depth) ==
  IF getLatestStatus(history) # Null
    THEN [returned |-> TRUE, status |-> getLatestStatus(history),
          depth |-> depth]
    ELSE IF depth >= MaxStack
      THEN [returned |-> FALSE, status |-> NoStatus, depth |-> depth]
      ELSE getCurrentStatus(history, depth + 1)

\* UptimeMonitor.getCurrentStatus called from the router.  Every frame that
\* found no status has started a collectSystemStatus call, which stays
\* suspended in updateNetworkStats: as many of them as the model has room for.
GetCurrentStatus ==
  /\ histReady
  /\ LET outcome == getCurrentStatus(statusHistory, 1)
     IN  /\ gCall' = outcome
         /\ collPc' = IF getLatestStatus(statusHistory) # Null THEN collPc
                      ELSE [c \in Collects |->
                              IF collPc[c] = "idle" THEN "stats" ELSE collPc[c]]
  /\ UNCHANGED <<histReady, runFiles, currentRunNumber, entriesInCurrentFile,
                 statusHistory, sysIntervalId, collStatus, collRotate, collFile,
                 collText, appended, samples, histRestarts, overlapped,
                 writeFailed, tornRuns>>
  /\ UNCHANGED <<qNow, qCall, qPrev, qCalls, uCall, pCall>>
  /\ UNCHANGED pingVars

StatusNext == HistNext \/ GetCurrentStatus

\* ------------------------------------------------ UptimeMonitor, startup
\* what loadConfig finds at configPath: no file (readFile throws), a file that
\* is not JSON (JSON.parse throws), a JSON object without `targets`, or one
\* with a target list
ConfigFiles ==
  {[kind |-> k, targets |-> <<>>] : k \in {"missing", "malformed", "noTargets"}}
    \cup {[kind |-> "targets", targets |-> cfg] : cfg \in Configs}

\* the files the configuration cannot be loaded from
FailedConfigFiles == {file \in ConfigFiles : file.kind # "targets"}

\* loadConfig with a built-in target as its fallback
loadConfigDefaultTarget(file) ==
  IF file.kind = "targets" THEN file.targets ELSE <<"a">>

\* loadConfig: this.targets afterwards.  The catch block and `|| []` both
\* give the empty list.
loadConfig(file) ==
  IF file.kind = "targets" THEN file.targets ELSE <<>>

\* PingHandler.initialize with `file` at configPath
PingInitializeFrom(file) ==
  /\ PingInitialize
  /\ targets' = loadConfig(file)

\* UptimeMonitor.initialize when the configuration cannot be loaded: the
\* history handler first, then the ping handler, then both schedulers
InitializePing ==
  /\ histReady
  /\ \E file \in FailedConfigFiles : PingInitializeFrom(file)

StartSampling ==
  /\ running
  /\ SysStartMonitoring

StartProbing ==
  /\ sysIntervalId
  /\ PingStartMonitoring

StartupNext ==
  \/ \E fails \in BOOLEAN : HistInitialize(fails)
  \/ InitializePing
  \/ StartSampling
  \/ StartProbing
  \/ PingTimerFires
  \/ SysTimerFires
  \/ \E c \in Collects : StatsReturn(c)
  \/ \E c \in Collects, ok \in BOOLEAN : CacheWriteSettles(c, ok)

\* ------------------------------------------ HistoryHandler, read operations
\* 24 * 60 * 60 * 1000
DayMs == 86400000

\* Date.now() when a status was collected
Stamps == {0, DayMs, 2 * DayMs}

\* the days and count arguments the router passes (parseInt of the query)
DaysArgs == {0, 1, 2}
CountArgs == {0, 1, 50}

\* Array.prototype.slice(start): a negative start counts from the end, and
\* a start of -0 is 0
JsSlice(s, start) ==
  LET len  == Len(s)
      from == IF start < 0
                THEN (IF len + start > 0 THEN len + start ELSE 0)
                ELSE (IF start < len THEN start ELSE len)
  IN  SubSeq(s, from + 1, len)

\* getHistory on the array loadAllHistory resolved to
getHistory(allHistory, now, days, count) ==
  LET cutoff == now - (days * DayMs)
  IN  JsSlice(SelectSeq(allHistory, LAMBDA status : status.timestamp >= cutoff),
              -count)

\* this.statusHistory after getHistory filtered and sliced an array that may
\* be this.statusHistory itself (the catch block of loadAllHistory returns
\* it): filter and slice build new arrays
StatusHistoryAfterReadInPlace(history, selected) == selected

StatusHistoryAfterRead(history, selected) == history

\* addStatus with its write done and no other call in flight, on the fields
\* <<files, history, entries, run>> of the handler and its cache directory
addStatus(st, status) ==
  LET pushed  == Append(st.history, status)
      entries == st.entries + 1
      files   == Put(st.files, st.run, pushed)
  IN  IF entries >= maxEntriesPerFile
        THEN [files |-> files, history |-> <<status>>, entries |-> 1,
              run |-> st.run + 1]
        ELSE [files |-> files, history |-> pushed, entries |-> entries,
              run |-> st.run]

\* the handler after collecting log[1], ..., log[n] one after the other
RECURSIVE Collected(_, _)
Collected(log, n) ==
  IF n = 0
    THEN [files |-> EmptyMap, history |-> <<>>, entries |-> 0, run |-> 1]
    ELSE addStatus(Collected(log, n - 1), log[n])

\* the logs a monitor can have collected: sample i at a time not before
\* sample i - 1
Logs ==
  UNION {{[i \in 1..n |-> [sample |-> i, timestamp |-> at[i]]] :
            at \in {t \in [1..n -> Stamps] :
                      \A i \in 1..(n - 1) : t[i] <= t[i + 1]}}
         : n \in 0..MaxStored}

\* no read has been made
ReadIdle ==
  /\ qNow = 0
  /\ qCall = Null
  /\ qPrev = Null
  /\ qCalls = 0
  /\ uCall = Null
  /\ pCall = Null
  /\ gCall = Null

\* a monitor that has collected a log, at rest, about to be read
ReadInit ==
  /\ PingInit
  /\ \E log \in Logs :
       LET st == Collected(log, Len(log))
       IN  /\ runFiles = st.files
           /\ statusHistory = st.history
           /\ entriesInCurrentFile = st.entries
           /\ currentRunNumber = st.run
           /\ appended = log
           /\ samples = Len(log)
  /\ histReady = TRUE
  /\ sysIntervalId = FALSE
  /\ collPc = [c \in Collects |-> "idle"]
  /\ collStatus = [c \in Collects |-> NoStatus]
  /\ collRotate = [c \in Collects |-> FALSE]
  /\ collFile = [c \in Collects |-> 0]
  /\ collText = [c \in Collects |-> <<>>]
  /\ histRestarts = 0
  /\ overlapped = FALSE
  /\ writeFailed = FALSE
  /\ tornRuns = {}
  /\ qNow = 2 * DayMs
  /\ qCall = Null
  /\ qPrev = Null
  /\ qCalls = 0
  /\ uCall = Null
  /\ pCall = Null
  /\ gCall = Null

\* HistoryHandler.getHistory(days, count) without ping data.  `fails` is
\* readdir, readFile or JSON.parse throwing inside loadAllHistory, whose catch
\* block returns this.statusHistory.
GetHistory(days, count, fails) ==
  /\ qCalls < MaxQueries
  /\ qCalls' = qCalls + 1
  /\ LET allHistory == IF fails THEN statusHistory
                                ELSE loadAllHistory(runFiles)
         result     == getHistory(allHistory, qNow, days, count)
     IN  /\ qCall' = [days |-> days, count |-> count, now |-> qNow,
                      fails |-> fails, result |-> result]
         /\ statusHistory' =
              IF fails THEN StatusHistoryAfterRead(statusHistory, result)
                       ELSE statusHistory
  /\ qPrev' = qCall
  /\ UNCHANGED <<qNow, uCall, pCall, gCall>>
  /\ UNCHANGED <<histReady, runFiles, currentRunNumber, entriesInCurrentFile,
                 sysIntervalId, collPc, collStatus, collRotate, collFile,
                 collText, appended, samples, histRestarts, overlapped,
                 writeFailed, tornRuns>>
  /\ UNCHANGED pingVars

\* time passes between two reads
ClockAdvances ==
  /\ qNow < MaxClock * DayMs
  /\ qNow' = qNow + DayMs
  /\ UNCHANGED <<qCall, qPrev, qCalls, uCall, pCall, gCall>>
  /\ UNCHANGED <<pingVars, histVars>>

ReadNext ==
  \/ \E days \in DaysArgs, count \in CountArgs, fails \in BOOLEAN :
       GetHistory(days, count, fails)
  \/ ClockAdvances

\* ---------------------------------------------- PingHandler, uptime figures
\* the number num / den (a JavaScript number that is a ratio of two counts)
Ratio(num, den) == [num |-> num, den |-> den]

\* calculateUptimePercentage with the filter as `timestamp > cutoffTime`
calculateUptimePercentageAfterCutoff(res, targetId, now, days) ==
  LET targetResults == IF targetId \in DOMAIN res THEN res[targetId] ELSE <<>>
  IN  IF Len(targetResults) = 0 THEN Ratio(0, 1)
      ELSE
        LET cutoffTime    == now - (days * DayMs)
            recentResults == SelectSeq(targetResults,
                               LAMBDA result : result.timestamp > cutoffTime)
        IN  IF Len(recentResults) = 0 THEN Ratio(0, 1)
            ELSE
              LET upCount == Len(SelectSeq(recentResults,
                                           LAMBDA result : result.isUp))
              IN  Ratio(upCount * 100, Len(recentResults))

\* calculateUptimePercentage(targetId, days) on a results map at Date.now()
calculateUptimePercentage(res, targetId, now, days) ==
  LET targetResults == IF targetId \in DOMAIN res THEN res[targetId] ELSE <<>>
  IN  IF Len(targetResults) = 0 THEN Ratio(0, 1)
      ELSE
        LET cutoffTime    == now - (days * DayMs)
            recentResults == SelectSeq(targetResults,
                               LAMBDA result : result.timestamp >= cutoffTime)
        IN  IF Len(recentResults) = 0 THEN Ratio(0, 1)
            ELSE
              LET upCount == Len(SelectSeq(recentResults,
                                           LAMBDA result : result.isUp))
              IN  Ratio(upCount * 100, Len(recentResults))

\* the result series a target can have: probe outcomes stamped with a
\* Date.now() that does not go back.  Their number stays under the source's
\* maxResultsPerTarget of 1000, which calculateUptimePercentage does not read.
Series ==
  UNION {{[i \in 1..n |-> [isUp |-> probe[i].isUp,
                           responseTime |-> probe[i].responseTime,
                           timestamp |-> at[i]]] :
            probe \in [1..n -> ProbeOutcomes],
            at \in {t \in [1..n -> Stamps] :
                      \A i \in 1..(n - 1) : t[i] <= t[i + 1]}}
         : n \in 0..MaxResults}

\* a ping handler at rest that holds results for target "a" or for none
UptimeInit ==
  /\ HistInit
  /\ running = TRUE
  /\ targets = <<"a">>
  /\ \E series \in Series :
       \/ results = Put(EmptyMap, "a", series)
       \/ series = <<>> /\ results = EmptyMap
  /\ lastNotifiedStatus = EmptyMap
  /\ discordWebhookUrl = FALSE
  /\ intervalId = FALSE
  /\ pingFiles = results
  /\ tickPc = [k \in Ticks |-> "idle"]
  /\ tickIdx = [k \in Ticks |-> 0]
  /\ tickResult = [k \in Ticks |-> NoResult]
  /\ tickWrite = [k \in Ticks |-> <<>>]
  /\ tickType = [k \in Ticks |-> "none"]
  /\ tickPrev = [k \in Ticks |-> "undefined"]
  /\ sent = [t \in TargetIds |-> <<>>]
  /\ lastDelivery = [target |-> "none", ok |-> TRUE]
  /\ probes = 0
  /\ restarts = 0
  /\ tornPing = {}
  /\ pingOverlapped = FALSE
  /\ qNow = 2 * DayMs
  /\ qCall = Null
  /\ qPrev = Null
  /\ qCalls = 0
  /\ uCall = Null
  /\ pCall = Null
  /\ gCall = Null

\* PingHandler.calculateUptimePercentage(targetId, days)
CalculateUptimePercentage(targetId, days) ==
  /\ uCall' = [targetId |-> targetId, days |-> days, now |-> qNow,
               value |-> calculateUptimePercentage(results, targetId, qNow,
                                                   days)]
  /\ UNCHANGED <<qNow, qCall, qPrev, qCalls, pCall, gCall>>
  /\ UNCHANGED <<pingVars, histVars>>

UptimeNext ==
  \/ \E targetId \in TargetIds, days \in DaysArgs :
       CalculateUptimePercentage(targetId, days)
  \/ ClockAdvances

\* ================================================================ claims
TicksIdle == \A k \in Ticks : tickPc[k] = "idle"

CollectsIdle == \A c \in Collects : collPc[c] = "idle"

\* the availability notifications of a log, slow ones dropped: "down" for
\* initial-down and down, "up" for initial-up and up
Availability(log) ==
  LET kept == SelectSeq(log, LAMBDA n : n # "slow")
  IN  [i \in 1..Len(kept) |->
         IF kept[i] \in {"down", "initial-down"} THEN "down" ELSE "up"]

\* the states of the transition table
StateOf(status, targetId) ==
  IF targetId \notin DOMAIN status THEN "Unset"
  ELSE IF status[targetId] THEN "Up" ELSE "Down"

StateOfPrev(prev) ==
  IF prev = "undefined" THEN "Unset" ELSE IF prev = "true" THEN "Up" ELSE "Down"

\* the transition table of the specification, row by row
TableAction(s, r) ==
  CASE s = "Unset" /\ r.isUp -> "initial-up"
    [] s = "Unset" /\ ~r.isUp -> "initial-down"
    [] s = "Up" /\ r.isUp /\ r.responseTime > 1000 -> "slow"
    [] s = "Up" /\ r.isUp /\ r.responseTime <= 1000 -> "none"
    [] s = "Up" /\ ~r.isUp -> "down"
    [] s = "Down" /\ r.isUp -> "up"
    [] s = "Down" /\ ~r.isUp -> "none"

TableState(s, r) ==
  CASE s = "Unset" /\ r.isUp -> "Up"
    [] s = "Unset" /\ ~r.isUp -> "Down"
    [] s = "Up" /\ r.isUp -> "Up"
    [] s = "Up" /\ ~r.isUp -> "Down"
    [] s = "Down" /\ r.isUp -> "Up"
    [] s = "Down" /\ ~r.isUp -> "Down"

\* C1: for every target, the availability notifications dispatched for it
\* (initial-down and down as down, initial-up and up as up, slow ignored)
\* never hold two downs in a row nor two ups in a row.
C1_NoRepeatedAvailability ==
  \A t \in TargetIds :
    LET a == Availability(sent[t])
    IN  \A i \in 1..(Len(a) - 1) : a[i] # a[i + 1]

\* C2: every call of checkForNotifications (webhook configured) follows the
\* transition table for the state s it reads on entry and its result r: it
\* dispatches exactly the notification of the row, and it returns with the
\* row's new state stored when the row changes the state and with the stored
\* state untouched when the row keeps it.
C2_TransitionTable ==
  [][\A k \in Ticks :
       /\ (discordWebhookUrl /\ \E ok \in BOOLEAN : SaveSettles(k, ok)) =>
            LET s == StateOf(lastNotifiedStatus, cur(k))
                n == TableAction(s, tickResult[k])
            IN  /\ n = "none" =>
                     /\ tickPc'[k] # "send"
                     /\ lastNotifiedStatus' = lastNotifiedStatus
                     /\ TableState(s, tickResult[k]) = s
                /\ n # "none" =>
                     /\ tickPc'[k] = "send"
                     /\ tickType'[k] = n
       /\ (\E d \in Deliveries : SendSettles(k, d)) =>
            LET t == cur(k)
                s == StateOfPrev(tickPrev[k])
                z == TableState(s, tickResult[k])
            IN  /\ tickType[k] = TableAction(s, tickResult[k])
                /\ sent'[t] = Append(sent[t], tickType[k])
                /\ \A u \in TargetIds \ {t} : sent'[u] = sent[u]
                /\ StateOf(lastNotifiedStatus', t) =
                     IF z # s THEN z ELSE StateOf(lastNotifiedStatus, t)
    ]_vars

\* the scenario of the specification: first probe up, second probe down
C2_Witness ==
  /\ TicksIdle
  /\ sent["a"] = <<"initial-up", "down">>
  /\ StateOf(lastNotifiedStatus, "a") = "Down"

\* C3: no two probes of one target are in flight at once, and no two
\* notification evaluations of one target are in flight at once.
C3_NoOverlapPerTarget ==
  \A j, k \in Ticks :
    (j # k /\ tickPc[j] # "idle" /\ tickPc[k] # "idle" /\ cur(j) = cur(k)) =>
      /\ ~(tickPc[j] = "ping" /\ tickPc[k] = "ping")
      /\ ~(tickPc[j] = "send" /\ tickPc[k] = "send")

\* C4: when the webhook POST throws or answers not-OK, checkForNotifications
\* still returns with the state the transition prescribes (the result's isUp
\* for initial-up, initial-down, down and up; the stored state untouched for
\* slow), so feeding the same result again dispatches no availability
\* notification.
C4_DeliveryFailureCommits ==
  [][\A k \in Ticks, d \in {"notOk", "throws"} :
       SendSettles(k, d) =>
         LET t == cur(k)
         IN  IF tickType[k] = "slow"
               THEN lastNotifiedStatus' = lastNotifiedStatus
               ELSE /\ t \in DOMAIN lastNotifiedStatus'
                    /\ lastNotifiedStatus'[t] = tickResult[k].isUp
                    /\ \A u \in TargetIds \ {t} :
                         StateOf(lastNotifiedStatus', u) = StateOf(lastNotifiedStatus, u)
                    /\ NotificationType(StatusOf(lastNotifiedStatus', t), tickResult[k])
                         \in {"none", "slow"}
    ]_vars

\* a down notification whose POST failed, and the state is Down all the same
C4_Witness ==
  /\ TicksIdle
  /\ sent["a"] = <<"initial-up", "down">>
  /\ lastDelivery = [target |-> "a", ok |-> FALSE]
  /\ StateOf(lastNotifiedStatus, "a") = "Down"

\* C5: whenever no tick is in progress, the notification state of every
\* target is the isUp of its last persisted result, and it is unset exactly
\* when the persisted series is empty.
C5_StateDerivableFromSeries ==
  (running /\ TicksIdle) =>
    \A t \in TargetIds :
      LET stored == IF t \in DOMAIN pingFiles THEN pingFiles[t] ELSE <<>>
      IN  /\ Len(stored) > 0 =>
               /\ t \in DOMAIN lastNotifiedStatus
               /\ lastNotifiedStatus[t] = Last(stored).isUp
          /\ (t \notin DOMAIN lastNotifiedStatus) <=> (Len(stored) = 0)

\* C6: with no append in flight, the chunk files concatenated in ascending
\* run number are exactly the statuses appended, each once and in order
\* (stated for behaviours without restart, write failure or overlapping
\* appends).
C6_ChunksReproduceSeries ==
  (CollectsIdle /\ ~overlapped /\ ~writeFailed /\ histRestarts = 0) =>
    loadAllHistory(runFiles) = appended

\* C7: on a fresh series, after maxEntriesPerFile appends run 1 holds those
\* records, and after one more append run 2 exists and holds exactly the
\* record just appended.
C7_RotationOpensSingleton ==
  (CollectsIdle /\ ~overlapped /\ ~writeFailed /\ histRestarts = 0) =>
    /\ Len(appended) = maxEntriesPerFile =>
         /\ DOMAIN runFiles = {1}
         /\ runFiles[1] = appended
    /\ Len(appended) = maxEntriesPerFile + 1 =>
         /\ DOMAIN runFiles = {1, 2}
         /\ runFiles[1] = SubSeq(appended, 1, maxEntriesPerFile)
         /\ runFiles[2] = <<appended[maxEntriesPerFile + 1]>>

\* C8: initialize (all reads succeeding, after a behaviour without write
\* failure or overlapping appends) leaves an open chunk with fewer than
\* maxEntriesPerFile records whose length is entriesInCurrentFile; when the
\* highest run file is full the open chunk is empty and has the next number.
C8_InitializeOpensChunk ==
  [][(HistInitialize(FALSE) /\ ~overlapped /\ ~writeFailed) =>
       /\ Len(statusHistory') < maxEntriesPerFile
       /\ Len(statusHistory') = entriesInCurrentFile'
       /\ (DOMAIN runFiles # {} /\
           Len(runFiles[MaxRun(runFiles)]) >= maxEntriesPerFile) =>
            /\ statusHistory' = <<>>
            /\ currentRunNumber' = MaxRun(runFiles) + 1
    ]_vars

\* C9: every write of saveCache goes to the highest run number that exists
\* or to a new, higher one (stated for behaviours without write failure or
\* overlapping appends).
C9_WritesOnlyOpenChunk ==
  \A c \in Collects :
    (collPc[c] = "write" /\ ~overlapped /\ ~writeFailed /\ DOMAIN runFiles # {}) =>
      collFile[c] >= MaxRun(runFiles)

\* C10: when addStatus(s) returns, getLatestStatus() is s; when
\* addResult(t, r) returns, getLatestResultForTarget(t) is r.
C10_AppendThenLatest ==
  [][/\ \A c \in Collects, ok \in BOOLEAN :
          CacheWriteSettles(c, ok) => getLatestStatus(statusHistory') = collStatus[c]
     /\ \A k \in Ticks, o \in ProbeOutcomes :
          ProbeReturns(k, o) =>
            getLatestResultForTarget(results', cur(k)) = tickResult'[k]
    ]_vars

\* every status appended so far is held by some run file
AllAppendedStored(files) ==
  \A i \in 1..Len(appended) :
    \E n \in DOMAIN files : \E j \in 1..Len(files[n]) : files[n][j] = appended[i]

\* C11: when addStatus returns after a successful write (in a process that
\* was never restarted, no write has failed before and no other addStatus has
\* been in flight), every status appended so far is in some run file, and the
\* file of the open chunk (run-currentRunNumber) holds exactly the in-memory
\* statusHistory.
C11_AppendPersistsOpenChunk ==
  [][\A c \in Collects :
       (CacheWriteSettles(c, TRUE) /\ ~overlapped /\ ~writeFailed
          /\ histRestarts = 0) =>
         /\ AllAppendedStored(runFiles')
         /\ currentRunNumber' \in DOMAIN runFiles'
         /\ runFiles'[currentRunNumber'] = statusHistory'
    ]_vars


\* C12: a failed write does not end the append (addStatus runs to its end,
\* the tick goes on), the in-memory series keeps the record, and the next
\* successful write leaves every record appended so far on disk: every status
\* in some run file, the target's file equal to its in-memory series (stated
\* for a process that was never restarted, one append at a time).
C12_FailedWriteLosesNothing ==
  [][/\ \A c \in Collects :
          /\ (CacheWriteSettles(c, FALSE) /\ ~overlapped) =>
               /\ collPc'[c] = "idle"
               /\ getLatestStatus(statusHistory') = collStatus[c]
          /\ (CacheWriteSettles(c, TRUE) /\ ~overlapped /\ histRestarts = 0) =>
               AllAppendedStored(runFiles')
     /\ \A k \in Ticks :
          /\ SaveSettles(k, FALSE) =>
               /\ tickPc'[k] # "save"
               /\ results' = results
          /\ (SaveSettles(k, TRUE) /\ restarts = 0
                /\ \A j \in Ticks \ {k} : tickPc[j] = "idle") =>
               pingFiles'[cur(k)] = results[cur(k)]
    ]_vars

\* C13: at most one append per series is between its start and the
\* completion of its file write: at most one addStatus is suspended in
\* saveCache, and for every target at most one tick is suspended in
\* saveResults.
C13_OneAppendInFlight ==
  /\ \A c, d \in Collects :
       (collPc[c] = "write" /\ collPc[d] = "write") => c = d
  /\ \A j, k \in Ticks :
       (tickPc[j] = "save" /\ tickPc[k] = "save" /\ cur(j) = cur(k)) => j = k

\* C14: at every instant every run file and every target's result file holds
\* a complete text, its previous one or its new one: no file is ever torn,
\* whenever the process ends (stated for the run files in behaviours where no
\* write has reported an error).
C14_NoTornFile ==
  /\ ~writeFailed => tornRuns = {}
  /\ tornPing = {}

\* the series of a target after one more result under the retention cap: the
\* most recent maxResultsPerTarget of the appended results, in append order
Retained(old, result) ==
  IF Len(old) < maxResultsPerTarget
    THEN Append(old, result)
    ELSE Append(Tail(old), result)

\* C15: no target's series ever holds more than maxResultsPerTarget results,
\* in memory or in its file; addResult leaves the most recent
\* maxResultsPerTarget results in append order; and when saveResults has
\* written the whole text and no other tick is in progress, the target's file
\* holds exactly the in-memory series.
C15_RetentionCap ==
  [][/\ \A t \in DOMAIN results' : Len(results'[t]) <= maxResultsPerTarget
     /\ \A t \in DOMAIN pingFiles' : Len(pingFiles'[t]) <= maxResultsPerTarget
     /\ \A k \in Ticks, o \in ProbeOutcomes :
          ProbeReturns(k, o) =>
            results'[cur(k)] = Retained(getResultsForTarget(cur(k)), tickResult'[k])
     /\ \A k \in Ticks :
          (SaveSettles(k, TRUE) /\ cur(k) \notin tornPing'
             /\ \A j \in Ticks \ {k} : tickPc[j] = "idle") =>
            pingFiles'[cur(k)] = results[cur(k)]
    ]_vars

\* the collected statuses with timestamp >= since, in the order collected
InWindow(since) ==
  SelectSeq(appended, LAMBDA status : status.timestamp >= since)

\* C16: a getHistory call whose files were read returns at most `count`
\* records, and they are exactly the last min(count, n) of the n collected
\* statuses with timestamp >= now - days, oldest first, each one once; this
\* for every count >= 0, 0 included.
C16_QueryReturnsTail ==
  (qCall # Null /\ ~qCall.fails) =>
    LET stored == InWindow(qCall.now - (qCall.days * DayMs))
        n      == Len(stored)
        k      == IF qCall.count < n THEN qCall.count ELSE n
    IN  /\ Len(qCall.result) <= qCall.count
        /\ qCall.result = SubSeq(stored, n - k + 1, n)

\* what a getHistory call must leave alone: the chunk files, the open chunk,
\* its counters, and the ping results
ReadFrame ==
  UNCHANGED <<runFiles, statusHistory, entriesInCurrentFile, currentRunNumber,
              tornRuns, results, pingFiles>>

\* the step is a getHistory call: the only step that counts one
IsGetHistory == qCalls' = qCalls + 1

\* two calls that were given the same arguments at the same clock value
SameQuery(p, q) ==
  /\ p # Null
  /\ q # Null
  /\ p.days = q.days
  /\ p.count = q.count
  /\ p.now = q.now

UptimeWindow ==
  LET series == getResultsForTarget(uCall.targetId)
  IN  {i \in 1..Len(series) :
         series[i].timestamp >= uCall.now - (uCall.days * DayMs)}

\* the positions in the window whose result is up
UptimeUp == {i \in UptimeWindow : getResultsForTarget(uCall.targetId)[i].isUp}

\* C18: calculateUptimePercentage returns (results in the window that are up)
\* / (results in the window) x 100, the window being timestamp >= now - days;
\* 0 when the target has no result or none in the window, 100 when all in the
\* window are up, 75 for 3 up and 1 down, and a value in [0, 100] always.
C18_UptimePercentage ==
  uCall # Null =>
    LET inWindow == Cardinality(UptimeWindow)
        up       == Cardinality(UptimeUp)
        value    == uCall.value
    IN  /\ value.den > 0
        /\ inWindow = 0 => value.num = 0
        /\ inWindow > 0 => value.num * inWindow = up * 100 * value.den
        /\ (inWindow > 0 /\ up = inWindow) => value.num = 100 * value.den
        /\ (inWindow = 4 /\ up = 3) => value.num = 75 * value.den
        /\ 0 <= value.num
        /\ value.num <= 100 * value.den

\* 3 up and 1 down in the window, one of them stamped with the cutoff itself
C18_Witness ==
  /\ uCall # Null
  /\ Cardinality(UptimeWindow) = 4
  /\ Cardinality(UptimeUp) = 3
  /\ uCall.value.num = 75 * uCall.value.den
  /\ \E i \in UptimeWindow :
       getResultsForTarget(uCall.targetId)[i].timestamp =
         uCall.now - (uCall.days * DayMs)

\* C19: a probe never raises and never ends the round early.  Whatever the
\* probe met (connection error, timeout, DNS failure, status >= 400, malformed
\* URL, failed reachability check), pingTarget returns a result, with isUp =
\* false for each of these; pingAllTargets appends that result and goes on to
\* save it, and a round ends only after its last target.
C19_ProbeNeverRaises ==
  [][/\ \A k \in Ticks, method \in Methods :
          \A event \in EventsOf(method) :
            PingTargetSettles(k, method, event) =>
              /\ ~pingTarget(method, event).rejected
              /\ tickPc'[k] = "save"
              /\ tickIdx'[k] = tickIdx[k]
              /\ tickResult'[k] = pingTarget(method, event).value
              /\ Last(results'[cur(k)]) = tickResult'[k]
              /\ event \in FailureEvents => ~tickResult'[k].isUp
     /\ \A k \in Ticks :
          (tickPc[k] # "idle" /\ tickPc'[k] = "idle") =>
            tickIdx[k] = Len(targets)
    ]_vars

\* the first target's probe met a malformed URL, its result is stored as down,
\* and the round is at its second target
C19_Witness ==
  /\ Len(targets) = 2
  /\ \E k \in Ticks : tickPc[k] = "ping" /\ tickIdx[k] = 2
  /\ targets[1] \in DOMAIN results
  /\ Len(results[targets[1]]) > 0
  /\ ~Last(results[targets[1]]).isUp
  /\ Last(results[targets[1]]).error = "Invalid URL"

\* C20: every stored result with isUp = false carries a non-empty error
\* message, whatever made the probe fail.
C20_DownResultHasError ==
  \A t \in DOMAIN results :
    \A i \in 1..Len(results[t]) :
      ~results[t][i].isUp => results[t][i].error # ""

\* C21: for an HTTP probe that received a response, isUp is true iff the
\* status code is < 400 when the target has no expectedStatus, and iff the
\* status code equals expectedStatus when the target configures one.
C21_ExpectedStatusHonored ==
  (pCall # Null /\ pCall.target.method # "icmp"
     /\ pCall.event.kind = "response") =>
    (pCall.result.isUp <=>
       IF pCall.target.expectedStatus = {}
         THEN pCall.event.statusCode < 400
         ELSE pCall.event.statusCode \in pCall.target.expectedStatus)

\* C22: the records of a series are strictly timestamp-ordered by append
\* order: of two statuses, the one appended first has the strictly smaller
\* timestamp, under every interleaving of the timer callbacks.
C22_StrictlyTimestampOrdered ==
  \A i, j \in 1..Len(appended) :
    i < j => appended[i].timestamp < appended[j].timestamp

\* C23: once stopMonitoring has returned and until monitoring is started
\* again, nothing more happens: while a scheduler has no timer registered, no
\* tick of it begins, nothing is appended to a series or written to its file,
\* and no notification is sent (a crash of the process aside).
C23_ShutdownStopsEverything ==
  [][/\ (running /\ ~intervalId /\ ~intervalId' /\ restarts' = restarts) =>
          /\ \A k \in Ticks : tickPc[k] = "idle" => tickPc'[k] = "idle"
          /\ results' = results
          /\ pingFiles' = pingFiles
          /\ sent' = sent
     /\ (histReady /\ ~sysIntervalId /\ ~sysIntervalId'
           /\ histRestarts' = histRestarts) =>
          /\ \A c \in Collects : collPc[c] = "idle" => collPc'[c] = "idle"
          /\ appended' = appended
          /\ runFiles' = runFiles
    ]_vars

\* C24: getCurrentStatus terminates and returns a status sample in every
\* state, also when no sample has been recorded yet.
C24_CurrentStatusReturns ==
  gCall # Null => gCall.returned

\* C25: a configuration that cannot be loaded (missing file, malformed
\* file, no target list) leaves the target set empty and does not block
\* startup: PingHandler.initialize completes, later probing ticks probe
\* nothing, append nothing and notify nothing, and the sampling of system
\* metrics is not held back by it.
C25_ConfigFailureEmptyTargets ==
  [][/\ \A file \in FailedConfigFiles :
          PingInitializeFrom(file) => running' /\ targets' = <<>>
     /\ running =>
          /\ targets' = <<>>
          /\ \A k \in Ticks : tickPc'[k] = "idle"
          /\ results' = results
          /\ pingFiles' = pingFiles
          /\ sent' = sent
     /\ (running /\ histReady /\ ~sysIntervalId) => ENABLED StartSampling
    ]_vars

\* after the failed load both timers run, probing ticks have fired, and the
\* system-status series has grown
C25_Witness ==
  /\ running
  /\ targets = <<>>
  /\ intervalId
  /\ sysIntervalId
  /\ Len(appended) >= 2
  /\ results = EmptyMap

\* C26: slow responses are reported on every occurrence and never change
\* the state.  A checkForNotifications call that reads state Up and has a
\* result that is up with responseTime > slowResponseThreshold dispatches
\* exactly one slow notification and leaves the stored state of every target
\* as it is; with responseTime equal to the threshold it dispatches nothing.
C26_SlowEveryTime ==
  [][\A k \in Ticks :
       /\ (/\ discordWebhookUrl
           /\ \E ok \in BOOLEAN : SaveSettles(k, ok)
           /\ StateOf(lastNotifiedStatus, cur(k)) = "Up"
           /\ tickResult[k].isUp) =>
            IF tickResult[k].responseTime > slowResponseThreshold
              THEN /\ tickPc'[k] = "send"
                   /\ tickType'[k] = "slow"
                   /\ lastNotifiedStatus' = lastNotifiedStatus
                   /\ sent' = sent
              ELSE /\ tickPc'[k] # "send"
                   /\ lastNotifiedStatus' = lastNotifiedStatus
                   /\ sent' = sent
       /\ (tickType[k] = "slow" /\ \E d \in Deliveries : SendSettles(k, d)) =>
            /\ sent'[cur(k)] = Append(sent[cur(k)], "slow")
            /\ \A u \in TargetIds \ {cur(k)} : sent'[u] = sent[u]
            /\ lastNotifiedStatus' = lastNotifiedStatus
    ]_vars

\* two slow results in a row after the first probe: two slow notifications,
\* and the state is still Up
C26_Witness ==
  /\ TicksIdle
  /\ sent["a"] = <<"initial-up", "slow", "slow">>
  /\ StateOf(lastNotifiedStatus, "a") = "Up"
  /\ Len(results["a"]) = maxResultsPerTarget
  /\ \A i \in 1..Len(results["a"]) :
       results["a"][i].responseTime > slowResponseThreshold

\* C27: every run file and the open chunk in memory hold at most
\* maxEntriesPerFile records, after any sequence of appends, rotations and
\* restarts (stated for behaviours without overlapping appends or failed
\* writes).
C27_ChunkCapacity ==
  (~overlapped /\ ~writeFailed) =>
    /\ Len(statusHistory) <= maxEntriesPerFile
    /\ \A n \in DOMAIN runFiles : Len(runFiles[n]) <= maxEntriesPerFile

\* the loop of pingAllTargets call k goes on to the next configured target, or
\* ends after the last one
LoopAdvances(k) ==
  IF tickIdx[k] < Len(targets)
    THEN tickPc'[k] = "ping" /\ tickIdx'[k] = tickIdx[k] + 1
    ELSE tickPc'[k] = "idle"

\* the number of notifications dispatched so far, over all targets
Notified == Len(sent["a"]) + Len(sent["b"])

\* C28: within one pingAllTargets call the steps for a target come in the
\* order probe, append to the target's series, persist the series, evaluate
\* the notification; the loop reaches the next configured target only when
\* the evaluation (with its dispatch, if any) of the previous one has finished;
\* a processed result causes at most one notification.  Stated for every step
\* that is not a restart of the process.
C28_TickOrder ==
  [][restarts' = restarts =>
       /\ \A k \in Ticks :
            /\ tickPc[k] = "idle" =>
                 /\ tickPc'[k] \in {"idle", "ping"}
                 /\ tickPc'[k] = "ping" => tickIdx'[k] = 1
            /\ tickPc[k] = "ping" =>
                 /\ tickPc'[k] \in {"ping", "save"}
                 /\ tickIdx'[k] = tickIdx[k]
                 /\ tickPc'[k] = "save" =>
                      /\ Last(results'[cur(k)]) = tickResult'[k]
                      /\ tickWrite'[k] = results'[cur(k)]
                      /\ pingFiles' = pingFiles
                      /\ sent' = sent
                      /\ lastNotifiedStatus' = lastNotifiedStatus
            /\ tickPc[k] = "save" =>
                 /\ tickPc'[k] \in {"save", "send", "ping", "idle"}
                 /\ tickPc'[k] = "save" =>
                      tickIdx'[k] = tickIdx[k] /\ tickWrite'[k] = tickWrite[k]
                 /\ tickPc'[k] # "save" =>
                      /\ results' = results
                      /\ sent' = sent
                      /\ lastNotifiedStatus' = lastNotifiedStatus
                 /\ tickPc'[k] = "send" =>
                      /\ tickIdx'[k] = tickIdx[k]
                      /\ tickType'[k] # "none"
                      /\ tickResult'[k] = tickResult[k]
                 /\ tickPc'[k] \in {"ping", "idle"} => LoopAdvances(k)
            /\ tickPc[k] = "send" =>
                 /\ tickPc'[k] \in {"send", "ping", "idle"}
                 /\ tickPc'[k] = "send" =>
                      tickIdx'[k] = tickIdx[k] /\ tickType'[k] = tickType[k]
                 /\ tickPc'[k] # "send" =>
                      /\ LoopAdvances(k)
                      /\ sent'[cur(k)] = Append(sent[cur(k)], tickType[k])
                      /\ \A t \in TargetIds \ {cur(k)} : sent'[t] = sent[t]
                      /\ results' = results /\ pingFiles' = pingFiles
       /\ Notified <= probes /\ Notified' <= probes'
       /\ Notified' <= Notified + 1
    ]_vars

\* one call went through both configured targets, each with its probe, its
\* stored series and its one notification
C28_Witness ==
  /\ TicksIdle /\ restarts = 0 /\ ~pingOverlapped
  /\ targets = <<"a", "b">>
  /\ probes = 2
  /\ \A t \in TargetIds :
       /\ t \in DOMAIN results /\ Len(results[t]) = 1
       /\ t \in DOMAIN pingFiles /\ pingFiles[t] = results[t]
       /\ Len(sent[t]) = 1

\* the file stored for a target, <<>> when there is none
StoredFor(files, targetId) ==
  IF targetId \in DOMAIN files THEN files[targetId] ELSE <<>>

\* the series held in memory for a target in a results map
SeriesFor(res, targetId) ==
  IF targetId \in DOMAIN res THEN res[targetId] ELSE <<>>

\* pingAllTargets call k takes a step (probe returned, write settled or POST
\* settled) for its current target
ProcessesResult(k) ==
  /\ restarts' = restarts
  /\ tickPc[k] \in {"ping", "save", "send"}
  /\ tickPc'[k] # tickPc[k] \/ tickIdx'[k] # tickIdx[k]

\* C29: notification state and series are per target: a step that processes a
\* result of target A (addResult, saveResults, checkForNotifications) leaves
\* the notification state, the series in memory, the stored file and the
\* notifications of every other target B as they were; without a webhook the
\* step dispatches nothing and changes no target's notification state.
C29_PerTargetFrame ==
  [][\A k \in Ticks : ProcessesResult(k) =>
       /\ \A B \in TargetIds \ {cur(k)} :
            /\ StatusOf(lastNotifiedStatus', B) = StatusOf(lastNotifiedStatus, B)
            /\ SeriesFor(results', B) = SeriesFor(results, B)
            /\ (B \in DOMAIN results') = (B \in DOMAIN results)
            /\ StoredFor(pingFiles', B) = StoredFor(pingFiles, B)
            /\ (B \in DOMAIN pingFiles') = (B \in DOMAIN pingFiles)
            /\ sent'[B] = sent[B]
       /\ ~discordWebhookUrl =>
            /\ tickPc'[k] # "send"
            /\ sent' = sent
            /\ lastNotifiedStatus' = lastNotifiedStatus
    ]_vars

\* both targets were processed and ended in different notification states,
\* each with its own series and its own notification
C29_Witness ==
  /\ discordWebhookUrl /\ TicksIdle /\ restarts = 0
  /\ StatusOf(lastNotifiedStatus, "a") = "true"
  /\ StatusOf(lastNotifiedStatus, "b") = "false"
  /\ sent["a"] = <<"initial-up">> /\ sent["b"] = <<"initial-down">>
  /\ Len(SeriesFor(results, "a")) = 1 /\ results["a"][1].isUp
  /\ Len(SeriesFor(results, "b")) = 1 /\ ~results["b"][1].isUp
  /\ StoredFor(pingFiles, "a") = results["a"]
  /\ StoredFor(pingFiles, "b") = results["b"]

\* the notifications of a target in dispatch order, slow ones left out
Dispatched(targetId) == SelectSeq(sent[targetId], LAMBDA x : x # "slow")

\* C30: over the whole lifetime of a target's stored series, restarts
\* included, an initial-up or initial-down notification is dispatched at most
\* once, and a down (or up) notification is not dispatched a second time for
\* the same outage (or recovery).  Checked with rounds that never overlap.
C30_NoRepeatAcrossRestarts ==
  \A t \in TargetIds :
    /\ Cardinality({i \in 1..Len(sent[t]) :
                      sent[t][i] \in {"initial-up", "initial-down"}}) <= 1
    /\ \A i \in 1..(Len(Dispatched(t)) - 1) :
         ~(/\ Dispatched(t)[i] \in {"down", "up"}
           /\ Dispatched(t)[i + 1] = Dispatched(t)[i])

Init == PingInit /\ HistInit /\ ReadIdle

Next == PingNext \/ HistNext

\* the ping scheduler alone
SpecPing == Init /\ [][PingNext]_vars

\* the system-status history alone
SpecHistory == Init /\ [][HistNext]_vars

\* the read operations on a monitor at rest
SpecRead == ReadInit /\ [][ReadNext]_vars

\* the uptime figure of a ping handler at rest
SpecUptime == UptimeInit /\ [][UptimeNext]_vars

\* the probes of one round
SpecProbe == Init /\ [][ProbeNext]_vars

\* pingTarget on one target
SpecTarget == Init /\ [][TargetNext]_vars

\* the system-status history while the clock runs
StampNext == HistNext \/ ClockAdvances

SpecStamp == Init /\ [][StampNext]_vars

\* the system-status history with getCurrentStatus calls
SpecStatus == Init /\ [][StatusNext]_vars

\* the start of a monitor whose ping configuration cannot be loaded
SpecStartup == Init /\ [][StartupNext]_vars

SpecSerial == Init /\ [][SerialNext]_vars

Spec == Init /\ [][Next]_vars
====
